---- MODULE Spec2Model ----
(***************************************************************************)
(* Duplicate-detection engine of image_browser.core: sha1_of_file,         *)
(* compute_sha1_map, compute_perceptual_groups and hamming, with the       *)
(* thread pool, the collecting loop, the cancellation event and the        *)
(* progress queue they share.                                              *)
(***************************************************************************)
EXTENDS Integers, Sequences, FiniteSets, TLC

VARIABLES
    mode,       \* "exact": compute_sha1_map, "near": compute_perceptual_groups
    paths,      \* list(paths): the submitted work items, in submission order
    threads,    \* the threads argument
    method,     \* the method argument (near mode)
    threshold,  \* the threshold argument (near mode)
    hasDct,     \* phash.HAS_DCT: scipy.fftpack.dct could be imported
    cancel,     \* cancel_event.is_set()
    fut,        \* the futures of the pool, one per submitted path
    pc,         \* position of the calling thread
    done,       \* the done counter of the collecting loop
    groups,     \* exact mode: the defaultdict digest -> list of paths
    entries,    \* near mode: the list of (path, fingerprint) results
    grp,        \* near mode: the locals of the grouping phase: i, j, cur,
                \* used, groups, and the loop the thread is in (at)
    out,        \* the value the function returns
    q,          \* the messages put on the queue q, in order
    ha,         \* hamming called on its own: the argument a
    hb,         \* the argument b
    hd,         \* what the call returned (NoValue before it returns)
    arr,        \* ahash or dhash called on its own: the array _to_grey gave
    val,        \* what the call returned (NoValue before it returns)
    data,       \* sha1_of_file called on its own: the chunks of the file
    late        \* the chunk reads that call began with the token set

args == <<mode, paths, threads, method, threshold, hasDct>>

pure == <<ha, hb, hd, arr, val, data, late>>

vars == <<args, pure, cancel, fut, pc, done, groups,
          entries, grp, out, q>>

-----------------------------------------------------------------------------
(* Bounds of the model *)

MaxPaths == 3

(* Width of the fingerprints of the model's images, in bits *)
Width == 3

-----------------------------------------------------------------------------
(* The files on disk.  They do not change during a run. *)

Files == {"a", "b", "c", "d", "e"}

(* p.open('rb') / Image.open(p) succeeds *)
Readable(f) == f # "e"

(* The bytes of the file, as the list of chunks that f.read(chunk) yields *)
Content(f) ==
    CASE f = "a" -> <<1, 2>>
      [] f = "b" -> <<1, 2>>
      [] f = "c" -> <<1>>
      [] f = "d" -> <<2>>
      [] OTHER   -> <<>>

(* The fingerprint that the method computes from the image in the file *)
ImageHash(f, m) ==
    IF m = "ahash"
    THEN CASE f = "a" -> 0
           [] f = "b" -> 0
           [] f = "c" -> 3
           [] OTHER   -> 7
    ELSE CASE f = "a" -> 5
           [] f = "b" -> 5
           [] f = "c" -> 4
           [] OTHER   -> 2

(* str(p.resolve()) *)
Resolve(p) == <<"/", p>>

-----------------------------------------------------------------------------
(* hashlib.sha1: the state is the data fed so far, the digest an injective *)
(* image of it that is never the empty string                              *)

EmptyDigest == <<>>

Sha1New == <<>>

Sha1Update(h, b) == Append(h, b)

(* Faulty variant: a digest of the first chunk only *)
HexdigestFirstChunk(h) == <<0>> \o (IF h = <<>> THEN <<>> ELSE <<Head(h)>>)

Hexdigest(h) == <<0>> \o h

None == <<>>

(* What a function body yields when it raises an exception *)
Raised == <<"raise">>

(* Faulty variant: no except clause, the exception leaves the work function *)
NotCaught(r) == r

(* try: ... except Exception: return None *)
Caught(r) == IF r = Raised THEN None ELSE r

(* Faulty variant: a set token ends the loop like the end of the file, and *)
(* the digest of what was read so far is returned                          *)
Sha1StepPrefixDigest(f, h, c) ==
    IF c \/ Len(h) >= Len(Content(f))
    THEN [ret |-> TRUE, h |-> h, val |-> Hexdigest(h)]
    ELSE [ret |-> FALSE, h |-> Sha1Update(h, Content(f)[Len(h) + 1]),
          val |-> EmptyDigest]

(* utils.py sha1_of_file, one iteration of its while loop on file f with   *)
(* hasher state h, the token read as c: ret says whether the function      *)
(* returns in this iteration, val is what it returns                       *)
Sha1Step(f, h, c) ==
    IF c
    THEN [ret |-> TRUE, h |-> h, val |-> EmptyDigest]
    ELSE IF Len(h) >= Len(Content(f))
         THEN [ret |-> TRUE, h |-> h, val |-> Hexdigest(h)]
         ELSE [ret |-> FALSE, h |-> Sha1Update(h, Content(f)[Len(h) + 1]),
               val |-> EmptyDigest]

(* Faulty variant: the loop of sha1_of_file never tests the token *)
HasherNotTested == FALSE

(* "if cancel_event is not None and cancel_event.is_set()" in the loop of *)
(* sha1_of_file                                                           *)
HasherCancelled == cancel

(* The locals of a call of sha1_of_file on its own: the statement it is at, *)
(* the hasher, and the value returned                                       *)
HasherStart == <<[st |-> "check", h |-> Sha1New, res |-> None]>>

-----------------------------------------------------------------------------
(* The pool and the futures *)

Total == Len(paths)

Futs == DOMAIN fut

(* Faulty variant: max_workers=int(threads) *)
MaxWorkersAsGiven == threads

(* max_workers=max(1,int(threads)) *)
MaxWorkers == IF threads > 1 THEN threads ELSE 1

Running == {k \in Futs : fut[k].st = "running"}

(* The pool's work queue is FIFO: the next item a free worker takes *)
NextPending(k) ==
    /\ fut[k].st = "pending"
    /\ \A m \in Futs : m < k => fut[m].st # "pending"

Settled(k) == fut[k].st \in {"finished", "yielded"}

(* Faulty variant: the collecting loop never tests the token *)
NotTested == FALSE

(* "cancel_event is not None and cancel_event.is_set()" at the head of an *)
(* iteration of the collecting loop                                       *)
LoopCancelled == cancel

(* Faulty variant: the work function never tests the token *)
WorkerNotTested == FALSE

(* "if cancel_event is not None and cancel_event.is_set(): return None" *)
(* at the head of work and of ph_for                                    *)
WorkerCancelled == cancel

(* Faulty variant: only results that are not None are counted *)
CountedIfResult(d, res) == IF res = None THEN d ELSE d + 1

(* "res = fut.result(); done += 1", before res is looked at *)
Counted(d, res) == d + 1

(* Faulty variant: the pool is shut down without waiting *)
PoolNotAwaited == TRUE

(* The with block can be left: ThreadPoolExecutor.__exit__ is            *)
(* shutdown(wait=True), which returns once every submitted work item ran *)
PoolDrained == \A k \in Futs : Settled(k)

(* q.put of a progress event is due *)
ProgressEvery == 50

(* Faulty variant: only the final completion is reported *)
ProgressOnlyLast(d, t) == d = t

(* Faulty variant: the final completion is not reported *)
ProgressPeriodOnly(d, t) == d % ProgressEvery = 0

ProgressDue(d, t) == d % ProgressEvery = 0 \/ d = t

(* Faulty variant: the event reports the items still to collect *)
ProgressMsgRemaining(d, t, ph) ==
    [type |-> "manage_progress", done |-> t - d, total |-> t, phase |-> ph]

ProgressMsg(d, t, ph) ==
    [type |-> "manage_progress", done |-> d, total |-> t, phase |-> ph]

DoneMsg(n) == [type |-> "manage_done", found |-> n]

(* Faulty variant: len(out), the number of groups *)
CountKeys(f, ks) == Cardinality(ks)

(* sum(len(v) for v in out.values()) *)
RECURSIVE SumLen(_, _)
SumLen(f, ks) ==
    IF ks = {} THEN 0
    ELSE LET k == CHOOSE x \in ks : TRUE
         IN Len(f[k]) + SumLen(f, ks \ {k})

-----------------------------------------------------------------------------
(* compute_sha1_map *)

(* paths = list(paths) ... futs = {ex.submit(work, p): p for p in paths} *)
Submitted == [k \in 1..Total |-> [st |-> "pending", h |-> Sha1New, res |-> None]]

BeginSha1 ==
    /\ mode = "exact"
    /\ pc = "start"
    /\ fut' = Submitted
    /\ pc' = "collect"
    /\ UNCHANGED <<args, pure, cancel, done, groups,
                   entries, grp, out, q>>

(* work(p) up to the call of sha1_of_file having opened the file: the    *)
(* token is read first, then p.open raises inside the try or succeeds    *)
Work(k) ==
    /\ mode = "exact"
    /\ NextPending(k)
    /\ Cardinality(Running) < MaxWorkers
    /\ IF WorkerCancelled
       THEN fut' = [fut EXCEPT ![k] = [st |-> "finished", h |-> Sha1New, res |-> None]]
       ELSE IF ~Readable(paths[k])
       THEN fut' = [fut EXCEPT ![k] = [st |-> "finished", h |-> Sha1New,
                                       res |-> Caught(Raised)]]
       ELSE fut' = [fut EXCEPT ![k] = [st |-> "running", h |-> Sha1New, res |-> None]]
    /\ UNCHANGED <<args, pure, cancel, pc, done, groups,
                   entries, grp, out, q>>

(* one iteration of the loop of sha1_of_file run by work(p) *)
Sha1Read(k) ==
    /\ mode = "exact"
    /\ fut[k].st = "running"
    /\ LET r == Sha1Step(paths[k], fut[k].h, cancel)
       IN fut' = [fut EXCEPT ![k] =
                    IF r.ret
                    THEN [st |-> "finished", h |-> r.h,
                          res |-> <<r.val, Resolve(paths[k])>>]
                    ELSE [st |-> "running", h |-> r.h, res |-> None]]
    /\ UNCHANGED <<args, pure, cancel, pc, done, groups,
                   entries, grp, out, q>>

(* Faulty variant: groups[h] = [path] *)
DictAssign(g, h, path) ==
    [x \in DOMAIN g \cup {h} |-> IF x = h THEN <<path>> ELSE g[x]]

(* Faulty variant: groups[h].insert(0, path) *)
DictPrepend(g, h, path) ==
    IF h \in DOMAIN g
    THEN [g EXCEPT ![h] = <<path>> \o @]
    ELSE [x \in DOMAIN g \cup {h} |-> IF x = h THEN <<path>> ELSE g[x]]

(* Faulty variant: a path already in groups[h] is not appended again *)
DictAppendOnce(g, h, path) ==
    IF h \in DOMAIN g /\ \E n \in 1..Len(g[h]) : g[h][n] = path
    THEN g
    ELSE [x \in DOMAIN g \cup {h} |->
            IF x = h THEN (IF h \in DOMAIN g THEN Append(g[h], path) ELSE <<path>>)
            ELSE g[x]]

(* groups[h].append(path) on the defaultdict *)
DictAppend(g, h, path) ==
    IF h \in DOMAIN g
    THEN [g EXCEPT ![h] = Append(@, path)]
    ELSE [x \in DOMAIN g \cup {h} |-> IF x = h THEN <<path>> ELSE g[x]]

(* "if res is None: continue ... if h: groups[h].append(path)" *)
Sha1Collected(g, res) ==
    IF res = None THEN g
    ELSE IF res[1] # EmptyDigest THEN DictAppend(g, res[1], res[2])
    ELSE g

(* One iteration of "for fut in as_completed(futs)" with future k yielded; *)
(* fut.result() raises again what the work function raised, and the        *)
(* exception leaves the loop.                                              *)
(* as_completed yields the futures that were finished when it was called   *)
(* in the iteration order of a set, and the others as they finish: every   *)
(* finished future that was not yielded yet can be the next one.           *)
CollectSha1(k) ==
    /\ mode = "exact"
    /\ pc = "collect"
    /\ fut[k].st = "finished"
    /\ IF LoopCancelled
       THEN /\ pc' = "shutdown"
            /\ UNCHANGED <<fut, done, groups, q>>
       ELSE IF fut[k].res = Raised
       THEN /\ fut' = [fut EXCEPT ![k].st = "yielded"]
            /\ pc' = "unwind"
            /\ UNCHANGED <<done, groups, q>>
       ELSE /\ fut' = [fut EXCEPT ![k].st = "yielded"]
            /\ done' = Counted(done, fut[k].res)
            /\ q' = IF ProgressDue(Counted(done, fut[k].res), Total)
                    THEN Append(q, ProgressMsg(Counted(done, fut[k].res), Total, "sha1"))
                    ELSE q
            /\ groups' = Sha1Collected(groups, fut[k].res)
            /\ pc' = pc
    /\ UNCHANGED <<args, pure, cancel,
                   entries, grp, out>>

(* as_completed is exhausted: the for loop ends *)
LoopEnd ==
    /\ pc = "collect"
    /\ \A k \in Futs : fut[k].st = "yielded"
    /\ pc' = "shutdown"
    /\ UNCHANGED <<args, pure, cancel, fut, done, groups,
                   entries, grp, out, q>>

(* Faulty variant: len(v) > 0 *)
KeepGroupNonEmpty(h, v) == Len(v) > 0 /\ h # EmptyDigest

(* out = {k:v for k,v in groups.items() if len(v) > 1 and k} *)
KeepGroup(h, v) == Len(v) > 1 /\ h # EmptyDigest

Sha1Out(g) ==
    LET keep == {h \in DOMAIN g : KeepGroup(h, g[h])}
    IN [h \in keep |-> g[h]]

(* the with block ends (the pool is shut down, waiting for every work item) *)
(* and the function filters, reports and returns, or the exception that     *)
(* left the loop leaves the function                                        *)
ReturnSha1 ==
    /\ mode = "exact"
    /\ pc \in {"shutdown", "unwind"}
    /\ PoolDrained
    /\ IF pc = "unwind"
       THEN /\ pc' = "raised"
            /\ UNCHANGED <<out, q>>
       ELSE /\ out' = Sha1Out(groups)
            /\ q' = Append(q, DoneMsg(SumLen(Sha1Out(groups), DOMAIN Sha1Out(groups))))
            /\ pc' = "returned"
    /\ UNCHANGED <<args, pure, cancel, fut, done, groups,
                   entries, grp>>

(* cancel_event.set() by another thread *)
SetCancel ==
    /\ ~cancel
    /\ pc \notin {"returned", "raised"}
    /\ cancel' = TRUE
    /\ UNCHANGED <<args, pure, fut, pc, done, groups,
                   entries, grp, out, q>>

(* self.cancel_event.clear() in on_find_exact_dupes and on_find_near_dupes *)
(* when another search is started, and in _poll_queue on a "cancelled"     *)
(* message: the window has one Event for all its tasks, and the run in     *)
(* progress holds that same object                                         *)
ClearCancel ==
    /\ cancel
    /\ pc \notin {"returned", "raised"}
    /\ cancel' = FALSE
    /\ UNCHANGED <<args, pure, fut, pc, done, groups, entries, grp, out, q>>

-----------------------------------------------------------------------------
(* phash.py hamming: (a ^ b).bit_count() *)

(* Faulty variant: a | b *)
RECURSIVE BitOr(_, _)
BitOr(a, b) ==
    IF a = 0 /\ b = 0 THEN 0
    ELSE (IF (a % 2) + (b % 2) > 0 THEN 1 ELSE 0) + 2 * BitOr(a \div 2, b \div 2)

(* a ^ b *)
RECURSIVE Xor(_, _)
Xor(a, b) ==
    IF a = 0 /\ b = 0 THEN 0
    ELSE (((a % 2) + (b % 2)) % 2) + 2 * Xor(a \div 2, b \div 2)

RECURSIVE BitCount(_)
BitCount(n) == IF n = 0 THEN 0 ELSE (n % 2) + BitCount(n \div 2)

(* Faulty variant: the bits of both arguments counted, not those that differ *)
HammingBothCounts(a, b) == BitCount(a) + BitCount(b)

Hamming(a, b) == BitCount(Xor(a, b))

NoValue == -1

(* a call hamming(ha, hb) *)
CallHamming ==
    /\ mode = "hamming"
    /\ hd = NoValue
    /\ hd' = Hamming(ha, hb)
    /\ UNCHANGED <<args, ha, hb, arr, val, data, late, cancel, fut, pc, done, groups,
                   entries, grp, out, q>>

-----------------------------------------------------------------------------
(* sha1_of_file called on its own, statement by statement *)

(* the head of an iteration: the token is set and "" is returned, or the *)
(* call goes on to f.read                                                *)
ChunkCheck ==
    /\ mode = "sha1_of_file"
    /\ fut[1].st = "check"
    /\ IF HasherCancelled
       THEN fut' = [fut EXCEPT ![1].st = "finished", ![1].res = EmptyDigest]
       ELSE fut' = [fut EXCEPT ![1].st = "read"]
    /\ UNCHANGED <<args, pure, cancel, pc, done, groups, entries, grp, out, q>>

(* b = f.read(chunk), then "if not b: break" and the return of the digest, *)
(* or h.update(b) and the next iteration                                   *)
ChunkRead ==
    /\ mode = "sha1_of_file"
    /\ fut[1].st = "read"
    /\ late' = IF cancel THEN late + 1 ELSE late
    /\ IF Len(fut[1].h) >= Len(data)
       THEN fut' = [fut EXCEPT ![1].st = "finished", ![1].res = Hexdigest(fut[1].h)]
       ELSE fut' = [fut EXCEPT ![1].st = "check",
                               ![1].h = Sha1Update(fut[1].h, data[Len(fut[1].h) + 1])]
    /\ UNCHANGED <<args, ha, hb, hd, arr, val, data, cancel, pc, done, groups,
                   entries, grp, out, q>>

-----------------------------------------------------------------------------
(* ahash and dhash *)

(* Side of the hash grid *)
HashSize == 2

(* Intensities of the greyscale array *)
Levels == {0, 128, 255}

(* the arrays of h rows and w columns *)
Arrays(h, w) == [1..h -> [1..w -> Levels]]

Rows(a) == Len(a)

Cols(a) == Len(a[1])

RECURSIVE SumSeq(_)
SumSeq(s) == IF s = <<>> THEN 0 ELSE s[1] + SumSeq(Tail(s))

(* ravel(): the elements row by row *)
Ravel(a) ==
    [n \in 1..(Rows(a) * Cols(a)) |->
        a[((n - 1) \div Cols(a)) + 1][((n - 1) % Cols(a)) + 1]]

(* "for b in bits: val = (val << 1) | int(b)" from val = 0 *)
RECURSIVE PackBits(_)
PackBits(bits) ==
    IF bits = <<>> THEN 0
    ELSE 2 * PackBits(SubSeq(bits, 1, Len(bits) - 1)) + bits[Len(bits)]

(* Faulty variant: arr >= avg *)
AtLeastMean(x, total, n) == x * n >= total

(* arr > avg for one element x of an array of n elements that sum to     *)
(* total: avg = total / n, exact in float32 for these sizes and levels   *)
AboveMean(x, total, n) == x * n > total

Ahash(a) ==
    LET n == Rows(a) * Cols(a)
        total == SumSeq(Ravel(a))
    IN PackBits([k \in 1..n |-> IF AboveMean(Ravel(a)[k], total, n) THEN 1 ELSE 0])

(* arr[:,1:] > arr[:,:-1]: element c of a row of diff compares column c + 1 *)
(* of arr, on the left of ">", with column c                                *)
Diff(a) ==
    [r \in 1..Rows(a) |->
        [c \in 1..(Cols(a) - 1) |-> IF a[r][c + 1] > a[r][c] THEN 1 ELSE 0]]

Dhash(a) == PackBits(Ravel(Diff(a)))

(* a call ahash(im) past _to_grey(im, (size, size)) *)
CallAhash ==
    /\ mode = "ahash"
    /\ val = NoValue
    /\ val' = Ahash(arr)
    /\ UNCHANGED <<args, ha, hb, hd, arr, data, late, cancel, fut, pc, done, groups,
                   entries, grp, out, q>>

(* a call dhash(im) past _to_grey(im, (size+1, size)) *)
CallDhash ==
    /\ mode = "dhash"
    /\ val = NoValue
    /\ val' = Dhash(arr)
    /\ UNCHANGED <<args, ha, hb, hd, arr, data, late, cancel, fut, pc, done, groups,
                   entries, grp, out, q>>

-----------------------------------------------------------------------------
(* compute_perceptual_groups *)

BeginPh ==
    /\ mode = "near"
    /\ pc = "start"
    /\ q' = Append(q, ProgressMsg(0, Total, method))
    /\ fut' = Submitted
    /\ pc' = "collect"
    /\ UNCHANGED <<args, pure, cancel, done, groups,
                   entries, grp, out>>

(* ph_for(p): the token is read first *)
PhForStart(k) ==
    /\ mode = "near"
    /\ NextPending(k)
    /\ Cardinality(Running) < MaxWorkers
    /\ IF WorkerCancelled
       THEN fut' = [fut EXCEPT ![k] = [st |-> "finished", h |-> Sha1New, res |-> None]]
       ELSE fut' = [fut EXCEPT ![k] = [st |-> "running", h |-> Sha1New, res |-> None]]
    /\ UNCHANGED <<args, pure, cancel, pc, done, groups,
                   entries, grp, out, q>>

(* The try block of ph_for(p): Image.open raises, or phash raises for     *)
(* want of the DCT, or the pair is returned; any method name other than   *)
(* "ahash" and "dhash" takes the phash branch                             *)
PhForBody(p, m) ==
    IF ~Readable(p) THEN Raised
    ELSE IF m \notin {"ahash", "dhash"} /\ ~hasDct THEN Raised
    ELSE <<Resolve(p), ImageHash(p, m)>>

(* what ph_for(p) returns once the token was read unset *)
PhForResult(p, m) == Caught(PhForBody(p, m))

PhForFinish(k) ==
    /\ mode = "near"
    /\ fut[k].st = "running"
    /\ fut' = [fut EXCEPT ![k] = [st |-> "finished", h |-> Sha1New,
                                  res |-> PhForResult(paths[k], method)]]
    /\ UNCHANGED <<args, pure, cancel, pc, done, groups,
                   entries, grp, out, q>>

(* if res: entries.append(res) *)
PhCollected(es, res) == IF res # None THEN Append(es, res) ELSE es

(* One iteration of "for fut in as_completed(futs)" with future k yielded *)
CollectPh(k) ==
    /\ mode = "near"
    /\ pc = "collect"
    /\ fut[k].st = "finished"
    /\ IF LoopCancelled
       THEN /\ pc' = "shutdown"
            /\ UNCHANGED <<fut, done, entries, q>>
       ELSE IF fut[k].res = Raised
       THEN /\ fut' = [fut EXCEPT ![k].st = "yielded"]
            /\ pc' = "unwind"
            /\ UNCHANGED <<done, entries, q>>
       ELSE /\ fut' = [fut EXCEPT ![k].st = "yielded"]
            /\ done' = Counted(done, fut[k].res)
            /\ q' = IF ProgressDue(Counted(done, fut[k].res), Total)
                    THEN Append(q, ProgressMsg(Counted(done, fut[k].res), Total, method))
                    ELSE q
            /\ entries' = PhCollected(entries, fut[k].res)
            /\ pc' = pc
    /\ UNCHANGED <<args, pure, cancel, groups, grp, out>>

(* The locals of the grouping phase.  Entries are numbered from 1 (entry 1 *)
(* is the source's entry 0) and a cluster is kept as the list of its        *)
(* entries' numbers; the source appends their paths.                        *)
NoGrouping ==
    [at |-> "none", i |-> 0, j |-> 0, cur |-> <<>>, used |-> {}, groups |-> <<>>]

(* groups = [], used = set(), and the first iteration of the for loop *)
GroupingStart ==
    [at |-> "anchor", i |-> 1, j |-> 0, cur |-> <<>>, used |-> {}, groups |-> <<>>]

(* Faulty variant: hamming(hi, hj) <= threshold + 1 *)
NearByOne(hi, hj, t) == Hamming(hi, hj) <= t + 1

(* Faulty variant: hamming(hi, hj) < threshold *)
NearStrict(hi, hj, t) == Hamming(hi, hj) < t

(* hamming(hi, hj) <= threshold *)
Near(hi, hj, t) == Hamming(hi, hj) <= t

(* Faulty variant: "if j in used: continue" is missing *)
TakesUsedToo(j, u, hi, hj, t) == Near(hi, hj, t)

(* j is not skipped as used and is within the threshold of the anchor *)
Takes(j, u, hi, hj, t) == j \notin u /\ Near(hi, hj, t)

(* Faulty variant: groups.append(cur) whatever len(cur) *)
EmitAlways(gs, c) == Append(gs, c)

(* if len(cur) > 1: groups.append(cur) *)

EmitCluster(gs, c) == IF Len(c) > 1 THEN Append(gs, c) ELSE gs

(* Faulty variant: the outer loop does not test the token *)
AnchorStepNoToken(g, es, c) ==
    IF g.i > Len(es)
    THEN [g EXCEPT !.at = "end"]
    ELSE IF g.i \in g.used
    THEN [g EXCEPT !.i = g.i + 1]
    ELSE [g EXCEPT !.cur = <<g.i>>, !.used = g.used \cup {g.i},
                   !.j = g.i + 1, !.at = "scan"]

(* The head of "for i in range(len(entries))" with the token read as c:   *)
(* the loop ends, or the token is set and it breaks, or i is used and     *)
(* skipped, or i becomes the anchor of a new cluster                      *)
AnchorStep(g, es, c) ==
    IF g.i > Len(es) \/ c
    THEN [g EXCEPT !.at = "end"]
    ELSE IF g.i \in g.used
    THEN [g EXCEPT !.i = g.i + 1]
    ELSE [g EXCEPT !.cur = <<g.i>>, !.used = g.used \cup {g.i},
                   !.j = g.i + 1, !.at = "scan"]

(* Faulty variant: the inner loop tests the token too and breaks *)
ScanStepCancellable(g, es, t) ==
    IF g.j > Len(es) \/ cancel
    THEN [g EXCEPT !.groups = EmitCluster(g.groups, g.cur),
                   !.i = g.i + 1, !.at = "anchor"]
    ELSE IF Takes(g.j, g.used, es[g.i][2], es[g.j][2], t)
    THEN [g EXCEPT !.cur = Append(g.cur, g.j), !.used = g.used \cup {g.j},
                   !.j = g.j + 1]
    ELSE [g EXCEPT !.j = g.j + 1]

(* Faulty variant: entry j is compared with the member taken last, not *)
(* with the anchor                                                     *)
ScanStepChained(g, es, t) ==
    IF g.j > Len(es)
    THEN [g EXCEPT !.groups = EmitCluster(g.groups, g.cur),
                   !.i = g.i + 1, !.at = "anchor"]
    ELSE IF Takes(g.j, g.used, es[g.cur[Len(g.cur)]][2], es[g.j][2], t)
    THEN [g EXCEPT !.cur = Append(g.cur, g.j), !.used = g.used \cup {g.j},
                   !.j = g.j + 1]
    ELSE [g EXCEPT !.j = g.j + 1]

(* One iteration of "for j in range(i+1, len(entries))", or its end and   *)
(* the emission of the cluster                                            *)
ScanStep(g, es, t) ==
    IF g.j > Len(es)
    THEN [g EXCEPT !.groups = EmitCluster(g.groups, g.cur),
                   !.i = g.i + 1, !.at = "anchor"]
    ELSE IF Takes(g.j, g.used, es[g.i][2], es[g.j][2], t)
    THEN [g EXCEPT !.cur = Append(g.cur, g.j), !.used = g.used \cup {g.j},
                   !.j = g.j + 1]
    ELSE [g EXCEPT !.j = g.j + 1]

(* the paths of a cluster, and the list the function returns *)
ClusterPaths(es, c) == [n \in 1..Len(c) |-> es[c[n]][1]]

GroupsOut(es, gs) == [n \in 1..Len(gs) |-> ClusterPaths(es, gs[n])]

RECURSIVE SumSeqLen(_)
SumSeqLen(gs) == IF gs = <<>> THEN 0 ELSE Len(Head(gs)) + SumSeqLen(Tail(gs))

(* the with block ends: the pool is shut down, waiting for every work item; *)
(* then the grouping phase begins, or the exception that left the loop      *)
(* leaves the function                                                      *)
StartGrouping ==
    /\ mode = "near"
    /\ pc \in {"shutdown", "unwind"}
    /\ PoolDrained
    /\ IF pc = "unwind"
       THEN pc' = "raised" /\ UNCHANGED grp
       ELSE grp' = GroupingStart /\ pc' = "group"
    /\ UNCHANGED <<args, pure, cancel, fut, done, groups, entries, out, q>>

(* The head of the outer loop; when the loop is left the function reports *)
(* and returns                                                            *)
GroupAnchor ==
    /\ mode = "near"
    /\ pc = "group"
    /\ grp.at = "anchor"
    /\ grp' = AnchorStep(grp, entries, cancel)
    /\ IF grp'.at = "end"
       THEN /\ q' = Append(q, DoneMsg(SumSeqLen(grp.groups)))
            /\ out' = GroupsOut(entries, grp.groups)
            /\ pc' = "returned"
       ELSE UNCHANGED <<pc, out, q>>
    /\ UNCHANGED <<args, pure, cancel, fut, done, groups, entries>>

GroupScan ==
    /\ mode = "near"
    /\ pc = "group"
    /\ grp.at = "scan"
    /\ grp' = ScanStep(grp, entries, threshold)
    /\ UNCHANGED <<args, pure, cancel, fut, done, groups, entries, pc, out, q>>

(* The grouping phase run to its end from g without cancellation *)
RECURSIVE RunGrouping(_, _, _)
RunGrouping(g, es, t) ==
    IF g.at = "end" THEN g.groups
    ELSE IF g.at = "anchor" THEN RunGrouping(AnchorStep(g, es, FALSE), es, t)
    ELSE RunGrouping(ScanStep(g, es, t), es, t)

-----------------------------------------------------------------------------
(* Inputs *)

ThreadChoices == {0, 2}

RECURSIVE SeqsUpTo(_, _)
SeqsUpTo(S, n) ==
    IF n = 0 THEN {<<>>}
    ELSE LET prev == SeqsUpTo(S, n - 1)
         IN prev \cup {Append(s, x) : s \in {t \in prev : Len(t) = n - 1}, x \in S}

PathLists == SeqsUpTo(Files, MaxPaths)

(* The state of a call before its first statement *)
Fresh ==
    /\ cancel = FALSE
    /\ fut = <<>>
    /\ pc = "start"
    /\ done = 0
    /\ groups = <<>>
    /\ entries = <<>>
    /\ grp = NoGrouping
    /\ out = <<>>
    /\ q = <<>>

NoCall ==
    /\ ha = 0 /\ hb = 0 /\ hd = NoValue
    /\ arr = <<>> /\ val = NoValue
    /\ data = <<>> /\ late = 0

InitRun(m) ==
    /\ mode = m
    /\ hasDct = TRUE
    /\ paths \in PathLists
    /\ threads \in ThreadChoices
    /\ Fresh
    /\ NoCall

InitExact == InitRun("exact") /\ method = "sha1" /\ threshold = 0

NextExact ==
    \/ BeginSha1
    \/ \E k \in 1..MaxPaths : k \in Futs /\ Work(k)
    \/ \E k \in 1..MaxPaths : k \in Futs /\ Sha1Read(k)
    \/ \E k \in 1..MaxPaths : k \in Futs /\ CollectSha1(k)
    \/ LoopEnd
    \/ ReturnSha1
    \/ SetCancel

SpecExact == InitExact /\ [][NextExact]_vars

(* compute_sha1_map running on the window's thread while the window goes *)
(* on handling its buttons and its queue                                 *)
NextShared == NextExact \/ ClearCancel

SpecShared == InitExact /\ [][NextShared]_vars

MethodChoices == {"ahash"}

InitNear == InitRun("near") /\ method \in MethodChoices /\ threshold \in 0..Width

NextNear ==
    \/ BeginPh
    \/ \E k \in 1..MaxPaths : k \in Futs /\ PhForStart(k)
    \/ \E k \in 1..MaxPaths : k \in Futs /\ PhForFinish(k)
    \/ \E k \in 1..MaxPaths : k \in Futs /\ CollectPh(k)
    \/ LoopEnd
    \/ StartGrouping
    \/ GroupAnchor
    \/ GroupScan
    \/ SetCancel

SpecNear == InitNear /\ [][NextNear]_vars

(* compute_perceptual_groups called with method "phash", with and without *)
(* scipy installed                                                        *)
InitPhash ==
    /\ mode = "near"
    /\ hasDct \in BOOLEAN
    /\ paths \in PathLists
    /\ threads \in ThreadChoices
    /\ Fresh
    /\ NoCall
    /\ method = "phash"
    /\ threshold \in {0, Width}

SpecPhash == InitPhash /\ [][NextNear]_vars

(* compute_perceptual_groups takes method as a plain str: the names the *)
(* else branch of ph_for receives are "phash" and every other string,   *)
(* "whash" standing for a name that is none of the three                *)
MethodNames == {"dhash", "phash", "whash"}

InitMethods ==
    /\ mode = "near"
    /\ hasDct = TRUE
    /\ paths \in PathLists
    /\ threads \in ThreadChoices
    /\ Fresh
    /\ NoCall
    /\ method \in MethodNames
    /\ threshold \in {0, Width}

SpecMethods == InitMethods /\ [][NextNear]_vars

(* The grouping phase of compute_perceptual_groups over four hashed images *)
(* a, b, c, d in every order, with the default threshold: a and b have the *)
(* same fingerprint, c is within the threshold of it, d is farther than    *)
(* the threshold from all three                                            *)
DefaultThreshold == 5

ScenarioWidth == 11

Ones(n) == 2^n - 1

(* fingerprints with their low bits set, and with their high bits set *)
ScenarioPrints ==
    {Ones(n) : n \in 0..ScenarioWidth}
        \cup {Ones(ScenarioWidth) - Ones(n) : n \in 0..ScenarioWidth}

ScenarioOrders ==
    {p \in [1..4 -> {"a", "b", "c", "d"}] : \A m, n \in 1..4 : p[m] = p[n] => m = n}

ScenarioEntries(p, fa, fc, fd) ==
    [n \in 1..4 |->
        <<Resolve(p[n]),
          IF p[n] \in {"a", "b"} THEN fa ELSE IF p[n] = "c" THEN fc ELSE fd>>]

InitScenario ==
    /\ mode = "near"
    /\ hasDct = TRUE
    /\ method = "ahash"
    /\ threshold = DefaultThreshold
    /\ threads = 1
    /\ cancel = FALSE
    /\ NoCall
    /\ \E p \in ScenarioOrders : \E fa, fc, fd \in ScenarioPrints :
          /\ Hamming(fa, fc) <= DefaultThreshold
          /\ Hamming(fa, fd) > DefaultThreshold
          /\ Hamming(fc, fd) > DefaultThreshold
          /\ paths = p
          /\ entries = ScenarioEntries(p, fa, fc, fd)
          /\ fut = [n \in 1..4 |->
                      [st |-> "yielded", h |-> Sha1New,
                       res |-> ScenarioEntries(p, fa, fc, fd)[n]]]
    /\ done = 4
    /\ q = <<ProgressMsg(0, 4, "ahash"), ProgressMsg(4, 4, "ahash")>>
    /\ groups = <<>>
    /\ grp = GroupingStart
    /\ pc = "group"
    /\ out = <<>>

NextScenario == GroupAnchor \/ GroupScan

SpecScenario == InitScenario /\ [][NextScenario]_vars

(* Runs over batches long enough for the progress period to pass: one    *)
(* worker, an unreadable file followed by copies of a one-chunk file,    *)
(* results taken from as_completed in submission order, the worker at    *)
(* most MaxBacklog finished items ahead of the collecting loop           *)
MaxBatch == 101

MaxBacklog == 1

BatchSizes ==
    {1, ProgressEvery - 1, ProgressEvery, ProgressEvery + 1, 2 * ProgressEvery, MaxBatch}

BatchPaths(n) == [k \in 1..n |-> IF k = 1 THEN "e" ELSE "c"]

InOrder(k) == \A m \in 1..(k - 1) : fut[m].st = "yielded"

(* the first future of every stretch of futures in state st: it holds the *)
(* next item the worker takes, the item the worker runs, and the next     *)
(* result in submission order                                             *)
Front(st) == {k \in Futs : fut[k].st = st /\ (k = 1 \/ fut[k - 1].st # st)}

Paced ==
    \/ pc = "shutdown"
    \/ Cardinality({m \in Futs : fut[m].st = "finished"}) < MaxBacklog

InitProgress ==
    /\ mode \in {"exact", "near"}
    /\ hasDct = TRUE
    /\ paths \in {BatchPaths(n) : n \in BatchSizes}
    /\ threads = 1
    /\ Fresh
    /\ NoCall
    /\ method = (IF mode = "exact" THEN "sha1" ELSE "ahash")
    /\ threshold = 0

NextProgress ==
    \/ BeginSha1
    \/ \E k \in Front("pending") : Paced /\ Work(k)
    \/ \E k \in Front("running") : Sha1Read(k)
    \/ \E k \in Front("finished") : InOrder(k) /\ CollectSha1(k)
    \/ ReturnSha1
    \/ BeginPh
    \/ \E k \in Front("pending") : Paced /\ PhForStart(k)
    \/ \E k \in Front("running") : PhForFinish(k)
    \/ \E k \in Front("finished") : InOrder(k) /\ CollectPh(k)
    \/ LoopEnd
    \/ StartGrouping
    \/ GroupAnchor
    \/ GroupScan
    \/ SetCancel

SpecProgress == InitProgress /\ [][NextProgress]_vars

(* Fingerprints of the declared width *)
Fingerprints == 0..(2^Width - 1)

InitHamming ==
    /\ mode = "hamming"
    /\ paths = <<>>
    /\ threads = 1
    /\ method = "ahash"
    /\ threshold = 0
    /\ hasDct = TRUE
    /\ Fresh
    /\ ha \in Fingerprints
    /\ hb \in Fingerprints
    /\ hd = NoValue
    /\ arr = <<>>
    /\ val = NoValue
    /\ data = <<>> /\ late = 0

SpecHamming == InitHamming /\ [][CallHamming]_vars

(* ahash and dhash called on their own: _to_grey resizes to (width,    *)
(* height) = (size, size) for ahash and (size + 1, size) for dhash       *)
InitHashes ==
    /\ mode \in {"ahash", "dhash"}
    /\ paths = <<>>
    /\ threads = 1
    /\ method = mode
    /\ threshold = 0
    /\ hasDct = TRUE
    /\ Fresh
    /\ ha = 0 /\ hb = 0 /\ hd = NoValue
    /\ arr \in (IF mode = "ahash" THEN Arrays(HashSize, HashSize)
                                  ELSE Arrays(HashSize, HashSize + 1))
    /\ val = NoValue
    /\ data = <<>> /\ late = 0

NextHashes == CallAhash \/ CallDhash

SpecHashes == InitHashes /\ [][NextHashes]_vars

(* Runs of both functions with worker counts below, at and above 1, over *)
(* a readable file, a shorter one and an unreadable one; the threads of  *)
(* the pool and the calling thread are scheduled fairly                  *)
WorkerChoices == {-1, 0, 1, 2}

InitWorkers ==
    /\ mode \in {"exact", "near"}
    /\ hasDct = TRUE
    /\ paths \in SeqsUpTo({"a", "c", "e"}, MaxPaths)
    /\ threads \in WorkerChoices
    /\ Fresh
    /\ NoCall
    /\ method = (IF mode = "exact" THEN "sha1" ELSE "ahash")
    /\ threshold = 0

(* the steps of the function and of its pool *)
RunStep ==
    \/ BeginSha1
    \/ \E k \in 1..MaxPaths : k \in Futs /\ Work(k)
    \/ \E k \in 1..MaxPaths : k \in Futs /\ Sha1Read(k)
    \/ \E k \in 1..MaxPaths : k \in Futs /\ CollectSha1(k)
    \/ ReturnSha1
    \/ BeginPh
    \/ \E k \in 1..MaxPaths : k \in Futs /\ PhForStart(k)
    \/ \E k \in 1..MaxPaths : k \in Futs /\ PhForFinish(k)
    \/ \E k \in 1..MaxPaths : k \in Futs /\ CollectPh(k)
    \/ LoopEnd
    \/ StartGrouping
    \/ GroupAnchor
    \/ GroupScan

NextWorkers == RunStep \/ SetCancel

SpecWorkers == InitWorkers /\ [][NextWorkers]_vars /\ WF_vars(RunStep)

(* Number of chunks of the longest file *)
MaxChunks == 3

(* sha1_of_file called on a file of up to MaxChunks chunks, with another *)
(* thread that may set the token                                         *)
InitChunks ==
    /\ mode = "sha1_of_file"
    /\ paths = <<>>
    /\ threads = 1
    /\ method = "sha1"
    /\ threshold = 0
    /\ hasDct = TRUE
    /\ cancel = FALSE
    /\ fut = HasherStart
    /\ pc = "start"
    /\ done = 0
    /\ groups = <<>>
    /\ entries = <<>>
    /\ grp = NoGrouping
    /\ out = <<>>
    /\ q = <<>>
    /\ ha = 0 /\ hb = 0 /\ hd = NoValue
    /\ arr = <<>> /\ val = NoValue
    /\ data \in SeqsUpTo({1, 2}, MaxChunks)
    /\ late = 0

NextChunks == ChunkCheck \/ ChunkRead \/ SetCancel

SpecChunks == InitChunks /\ [][NextChunks]_vars

Init == InitExact \/ InitNear \/ InitHamming

Next == NextExact \/ NextNear \/ CallHamming

Spec == Init /\ [][Next]_vars

-----------------------------------------------------------------------------
(* Properties of compute_sha1_map *)

Range(s) == {s[n] : n \in 1..Len(s)}

Count(s, x) == Cardinality({n \in 1..Len(s) : s[n] = x})

ExactReturned == mode = "exact" /\ pc = "returned"

AllReadable == \A k \in Futs : Readable(paths[k])

(* the digest of the whole file behind work item k *)
FileDigest(k) == Hexdigest(Content(paths[k]))

SameBytes(j, k) == Content(paths[j]) = Content(paths[k])

(* the work items that a run without cancellation hashes to digest h *)
ItemsOf(h) == {k \in Futs : Readable(paths[k]) /\ FileDigest(k) = h}

(* C1: in a run of compute_sha1_map that completes without cancellation on *)
(* readable files, for work items A, B with identical bytes and C whose    *)
(* bytes differ from them: exactly one returned group holds the resolved   *)
(* paths of both A and B, the resolved path of C is not in it, and C is in *)
(* no returned group at all when no other submitted item has C's bytes     *)
(* (the three-file setting of the claim).                                  *)
C1_ExactGrouping ==
    (ExactReturned /\ ~cancel /\ AllReadable) =>
        \A A \in Futs, B \in Futs, C \in Futs :
            (A # B /\ SameBytes(A, B) /\ ~SameBytes(C, A)) =>
                /\ Cardinality({h \in DOMAIN out :
                        /\ Resolve(paths[A]) \in Range(out[h])
                        /\ Resolve(paths[B]) \in Range(out[h])}) = 1
                /\ \A h \in DOMAIN out :
                        Resolve(paths[A]) \in Range(out[h])
                            => Resolve(paths[C]) \notin Range(out[h])
                /\ (\A D \in Futs \ {C} : ~SameBytes(D, C)) =>
                        \A h \in DOMAIN out : Resolve(paths[C]) \notin Range(out[h])

C1_Witness ==
    /\ ExactReturned /\ ~cancel /\ AllReadable
    /\ \E A \in Futs, B \in Futs, C \in Futs :
          /\ paths[A] # paths[B] /\ SameBytes(A, B) /\ ~SameBytes(C, A)
          /\ \E h \in DOMAIN out : Len(out[h]) = 2

(* C2: in every mapping compute_sha1_map returns, cancelled or not, each   *)
(* list has at least 2 members and every member is the resolved path of a  *)
(* submitted readable file whose digest is the list's key; in a run        *)
(* without cancellation the mapping is exactly the partition of the        *)
(* successfully hashed items by digest, restricted to classes of 2 or more *)
C2_ExactPartition ==
    ExactReturned =>
        /\ \A h \in DOMAIN out :
              /\ Len(out[h]) >= 2
              /\ \A n \in 1..Len(out[h]) :
                    \E k \in ItemsOf(h) : Resolve(paths[k]) = out[h][n]
        /\ ~cancel =>
              /\ DOMAIN out = {FileDigest(k) : k \in
                                 {j \in Futs : Cardinality(ItemsOf(FileDigest(j))) >= 2
                                               /\ Readable(paths[j])}}
              /\ \A h \in DOMAIN out :
                    /\ Len(out[h]) = Cardinality(ItemsOf(h))
                    /\ \A k \in ItemsOf(h) :
                          Count(out[h], Resolve(paths[k])) =
                             Cardinality({j \in ItemsOf(h) : paths[j] = paths[k]})

(* a cancelled run that still returns a group, with a readable item left out *)
C2_Witness ==
    /\ ExactReturned /\ cancel
    /\ DOMAIN out # {}
    /\ \E k \in Futs : Readable(paths[k])
                       /\ \A h \in DOMAIN out : Resolve(paths[k]) \notin Range(out[h])

(* C3: sha1_of_file returns the empty digest when it sees the token set    *)
(* between chunk reads, never the digest of a prefix of the file; no group *)
(* is ever keyed by the empty digest; and the groups hold exactly the      *)
(* collected results with a non-empty digest, so a work item that failed   *)
(* or was interrupted contributes no member to any group.                  *)
C3_NoFailedInGroup ==
    mode = "exact" =>
        /\ \A k \in Futs :
              (Settled(k) /\ fut[k].res # None) =>
                  /\ fut[k].res[2] = Resolve(paths[k])
                  /\ fut[k].res[1] \in {EmptyDigest, FileDigest(k)}
                  /\ fut[k].res[1] = EmptyDigest => cancel
        /\ EmptyDigest \notin DOMAIN groups
        /\ EmptyDigest \notin DOMAIN out
        /\ \A h \in DOMAIN groups : \A r \in Range(groups[h]) :
              Count(groups[h], r) =
                 Cardinality({k \in Futs : /\ fut[k].st = "yielded"
                                           /\ fut[k].res = <<h, r>>})

(* a read interrupted after the first chunk of a longer file *)
C3_Witness ==
    /\ ExactReturned
    /\ \E k \in Futs :
          /\ fut[k].st = "finished"
          /\ fut[k].res # None
          /\ fut[k].res[1] = EmptyDigest
          /\ Len(fut[k].h) = 1
          /\ Len(Content(paths[k])) = 2

-----------------------------------------------------------------------------
(* Properties of compute_perceptual_groups *)

NearReturned == mode = "near" /\ pc = "returned"

(* the fingerprint of entry i *)
Fp(i) == entries[i][2]

(* the entries of the clusters before cluster n of the list gs *)
TakenBefore(gs, n) == UNION {Range(gs[m]) : m \in 1..(n - 1)}

(* C4: in every list compute_perceptual_groups returns, the first member  *)
(* of each cluster is its anchor, every other member comes after it in    *)
(* the entry order and is within the threshold of the anchor, and the     *)
(* cluster is complete: it holds every entry after the anchor that no     *)
(* earlier cluster took and that is within the threshold of the anchor.   *)
C4_AnchorClusters ==
    NearReturned =>
        /\ out = GroupsOut(entries, grp.groups)
        /\ \A n \in 1..Len(grp.groups) :
              LET c == grp.groups[n]
                  a == c[1]
              IN /\ \A m \in 2..Len(c) :
                        /\ c[m] \in (a + 1)..Len(entries)
                        /\ Hamming(Fp(a), Fp(c[m])) <= threshold
                 /\ \A j \in (a + 1)..Len(entries) :
                        (/\ Hamming(Fp(a), Fp(j)) <= threshold
                         /\ j \notin TakenBefore(grp.groups, n))
                            => j \in Range(c)

(* a cluster whose anchor passed over an entry that an earlier cluster    *)
(* took, and one whose last member is exactly at the threshold            *)
C4_Witness ==
    /\ NearReturned
    /\ \E n \in 1..Len(grp.groups) :
          LET c == grp.groups[n]
          IN /\ Hamming(Fp(c[1]), Fp(c[Len(c)])) = threshold
             /\ threshold > 0
             /\ Len(entries) > Len(c)

(* C5: in the output of compute_perceptual_groups no entry is placed in   *)
(* two returned clusters and no entry appears twice in one cluster.       *)
C5_AtMostOneCluster ==
    NearReturned =>
        /\ \A n \in 1..Len(grp.groups) :
              Cardinality(Range(grp.groups[n])) = Len(grp.groups[n])
        /\ \A n \in 1..Len(grp.groups), m \in 1..Len(grp.groups) :
              n # m => Range(grp.groups[n]) \cap Range(grp.groups[m]) = {}
        /\ Len(out) = Len(grp.groups)
        /\ \A n \in 1..Len(out) : Len(out[n]) = Len(grp.groups[n])

(* an entry within the threshold of a later anchor was taken by an        *)
(* earlier cluster and is in that one only                                *)
C5_Witness ==
    /\ NearReturned
    /\ Len(grp.groups) >= 1
    /\ \E n \in 1..Len(grp.groups) :
          \E i \in 1..Len(entries), j \in Range(grp.groups[n]) :
              /\ i \notin Range(grp.groups[n])
              /\ grp.groups[n][1] < i
              /\ i < j
              /\ Hamming(Fp(i), Fp(j)) <= threshold

(* C6: compute_perceptual_groups never returns a cluster with fewer than  *)
(* 2 members, in cancelled and non-cancelled runs alike.                  *)
C6_NoSingletonCluster ==
    mode = "near" =>
        /\ \A n \in 1..Len(grp.groups) : Len(grp.groups[n]) >= 2
        /\ \A n \in 1..Len(out) : Len(out[n]) >= 2

(* an anchor that attracted no entry is left out of a non-empty output *)
C6_Witness ==
    /\ NearReturned
    /\ Len(out) >= 1
    /\ \E i \in grp.used : \A n \in 1..Len(grp.groups) : i \notin Range(grp.groups[n])

(* C6, a cancelled run: the token stopped the grouping after a cluster *)
C6_WitnessCancelled ==
    /\ NearReturned /\ cancel
    /\ Len(out) >= 1
    /\ grp.i <= Len(entries)

-----------------------------------------------------------------------------
(* Threshold monotonicity *)

(* the paths x and y are members of one cluster of the list of path lists o *)
Together(o, x, y) == \E n \in 1..Len(o) : x \in Range(o[n]) /\ y \in Range(o[n])

EntryPaths == {entries[i][1] : i \in 1..Len(entries)}

(* what the function returns for the same entries in the same order with   *)
(* threshold t                                                             *)
OutAt(t) == GroupsOut(entries, RunGrouping(GroupingStart, entries, t))

(* being within t is transitive on the fingerprints of the entries *)
TransitiveAt(t) ==
    \A i \in 1..Len(entries), j \in 1..Len(entries), k \in 1..Len(entries) :
        (Hamming(Fp(i), Fp(j)) <= t /\ Hamming(Fp(j), Fp(k)) <= t)
            => Hamming(Fp(i), Fp(k)) <= t

(* C7 as claimed: for the same entries in the same order, two paths in the *)
(* same returned cluster at threshold T are in the same returned cluster   *)
(* at every threshold T' > T.                                              *)
C7_ThresholdMonotone ==
    (NearReturned /\ ~cancel) =>
        \A t2 \in (threshold + 1)..Width :
            \A x \in EntryPaths, y \in EntryPaths :
                Together(out, x, y) => Together(OutAt(t2), x, y)

(* C7 as amended: for the same entries in the same order, two paths in the *)
(* same returned cluster at threshold T are in the same returned cluster   *)
(* at every threshold T' > T at which being within T' is transitive on the *)
(* fingerprints of the entries.                                            *)
C7_MonotoneWhenTransitive ==
    (NearReturned /\ ~cancel) =>
        \A t2 \in (threshold + 1)..Width :
            TransitiveAt(t2) =>
                \A x \in EntryPaths, y \in EntryPaths :
                    Together(out, x, y) => Together(OutAt(t2), x, y)

(* a cluster at T that a transitive larger threshold keeps and enlarges *)
C7_Witness ==
    /\ NearReturned /\ ~cancel
    /\ Len(out) >= 1
    /\ \E t2 \in (threshold + 1)..Width :
          /\ TransitiveAt(t2)
          /\ ~TransitiveAt(threshold)
          /\ OutAt(t2) # out

-----------------------------------------------------------------------------
(* Determinism *)

(* the member sets of a mapping digest -> list of paths *)
MemberSets(o) == [h \in DOMAIN o |-> Range(o[h])]

(* the digests that two or more readable submitted files have, each with  *)
(* the resolved paths of those files: a function of the submitted paths   *)
(* and the files alone                                                    *)
ExactClasses ==
    LET items(h) == {k \in 1..Len(paths) :
                        Readable(paths[k]) /\ Hexdigest(Content(paths[k])) = h}
        keys == {Hexdigest(Content(paths[k])) : k \in {j \in 1..Len(paths) : Readable(paths[j])}}
    IN [h \in {x \in keys : Cardinality(items(x)) >= 2} |->
            {Resolve(paths[k]) : k \in items(h)}]

(* C8: every run of compute_sha1_map without cancellation on the same     *)
(* files returns the same keys and, per key, the same set of member       *)
(* paths, whatever the worker count and the order in which the work items *)
(* complete: the member sets are the function ExactClasses of the input.  *)
C8_ExactDeterministic ==
    (ExactReturned /\ ~cancel) => MemberSets(out) = ExactClasses

(* two workers, and a group listed against the submission order *)
C8_Witness ==
    /\ ExactReturned /\ ~cancel
    /\ MaxWorkers = 2
    /\ \E h \in DOMAIN out : \E j \in Futs, k \in Futs :
          /\ j < k
          /\ out[h] = <<Resolve(paths[k]), Resolve(paths[j])>>
          /\ paths[j] # paths[k]

(* the entries of the run that collects every result in submission order *)
RECURSIVE EntriesInOrder(_, _)
EntriesInOrder(ps, m) ==
    IF ps = <<>> THEN <<>>
    ELSE PhCollected(EntriesInOrder(SubSeq(ps, 1, Len(ps) - 1), m),
                     PhForResult(ps[Len(ps)], m))

(* the member sets of a list of clusters *)
ClusterSets(o) == {Range(o[n]) : n \in 1..Len(o)}

(* what the run that collects in submission order returns *)
OutInOrder ==
    LET es == EntriesInOrder(paths, method)
    IN GroupsOut(es, RunGrouping(GroupingStart, es, threshold))

(* C9 as claimed: every run of compute_perceptual_groups without          *)
(* cancellation on the same files, method and threshold returns clusters   *)
(* with the same member sets, whatever the worker count and the order in   *)
(* which the work items complete; in particular the same member sets as    *)
(* the run that collects the results in submission order.                  *)
C9_NearDeterministic ==
    (NearReturned /\ ~cancel) => ClusterSets(out) = ClusterSets(OutInOrder)

(* the run that collects in submission order is one of the runs *)
C9_InOrderRunExists ==
    /\ NearReturned /\ ~cancel
    /\ Len(paths) = MaxPaths
    /\ entries = EntriesInOrder(paths, method)
    /\ out = OutInOrder
    /\ Len(out) >= 1

-----------------------------------------------------------------------------
(* Properties of hamming *)

(* C10: hamming is symmetric and bounded: for fingerprints h1, h2 of the  *)
(* declared width, hamming(h1, h2) = hamming(h2, h1) and                  *)
(* 0 <= hamming(h1, h2) <= width.                                         *)
C10_HammingSymmetricBounded ==
    (mode = "hamming" /\ hd # NoValue) =>
        /\ hd = Hamming(hb, ha)
        /\ 0 <= hd
        /\ hd <= Width

(* a call on two fingerprints that differ in every bit *)
C10_Witness ==
    /\ mode = "hamming"
    /\ hd = Width
    /\ ha # hb
    /\ ha # 0
    /\ hb # 0

(* C11: hamming(h, h) = 0 for every fingerprint h, and hamming(h1, h2) = 0 *)
(* only when h1 = h2.                                                      *)
C11_HammingZeroIffEqual ==
    (mode = "hamming" /\ hd # NoValue) => ((hd = 0) <=> (ha = hb))

(* a call on a fingerprint with bits set and itself *)
C11_Witness ==
    /\ mode = "hamming"
    /\ hd = 0
    /\ ha = hb
    /\ ha = 2^Width - 1

(* The dispatcher left the collecting loop through the break: the run has *)
(* returned and some future was never taken from as_completed            *)
BrokeOut == pc = "returned" /\ \E k \in Futs : fut[k].st # "yielded"

(* C12: a run whose dispatcher observed the token set while collecting *)
(* does not end with the 'done' signal on the progress sink.           *)
C12_CancelledNotDone ==
    (mode = "exact" /\ BrokeOut) => (q # <<>> /\ q[Len(q)].type # "manage_done")

(* result x was taken from as_completed by the dispatcher *)
Collected(x) == \E k \in Futs : fut[k].st = "yielded" /\ fut[k].res = x

(* every path of the returned value comes from a collected result *)
ReturnedFromCollected ==
    /\ ExactReturned =>
         \A h \in DOMAIN out : \A n \in 1..Len(out[h]) : Collected(<<h, out[h][n]>>)
    /\ NearReturned =>
         \A g \in 1..Len(out) : \A n \in 1..Len(out[g]) :
            \E v \in Fingerprints : Collected(<<out[g][n], v>>)

(* C13: with the token set the functions never raise, once the token is *)
(* set no further result is added to what they return, and what they    *)
(* return holds only results the dispatcher collected.                  *)
C13_CancelNeverRaises ==
    /\ [](cancel => pc \notin {"unwind", "raised"})
    /\ []ReturnedFromCollected
    /\ [][cancel => UNCHANGED <<groups, entries>>]_vars

(* a cancelled exact run that returns the group it had collected before *)
(* the break, with a work item never collected                          *)
C13_Witness ==
    /\ cancel /\ mode = "exact" /\ BrokeOut
    /\ out # <<>>

(* the submitted items that can be hashed, with resolved path p and fingerprint v *)
HashableAs(p, v) ==
    {k \in Futs : /\ Readable(paths[k])
                  /\ Resolve(paths[k]) = p
                  /\ ImageHash(paths[k], method) = v}

(* C14: no run has an exception in flight, and a run that is not cancelled *)
(* returns what the items that can be hashed give by themselves: in exact  *)
(* mode the digests shared by two or more of them, each with the paths of  *)
(* exactly those items; in near mode the entry list holds exactly those    *)
(* items, and the clusters are the clusters of that list.                  *)
C14_FailureIsolated ==
    /\ pc \notin {"unwind", "raised"}
    /\ (pc = "returned" /\ ~cancel /\ mode = "exact") =>
         /\ DOMAIN out = {FileDigest(k) : k \in {j \in Futs : Cardinality(ItemsOf(FileDigest(j))) > 1
                                                              /\ Readable(paths[j])}}
         /\ \A h \in DOMAIN out : \A f \in Files :
               Count(out[h], Resolve(f)) =
                  Cardinality({k \in ItemsOf(h) : paths[k] = f})
    /\ (pc \in {"group", "returned"} /\ ~cancel /\ mode = "near") =>
         /\ Len(entries) = Cardinality({k \in Futs : Readable(paths[k])})
         /\ \A k \in Futs : Readable(paths[k]) =>
               Count(entries, <<Resolve(paths[k]), ImageHash(paths[k], method)>>)
                  = Cardinality(HashableAs(Resolve(paths[k]), ImageHash(paths[k], method)))
    /\ (pc = "returned" /\ ~cancel /\ mode = "near") => out = OutAt(threshold)

(* an exact run with an unreadable file among the submitted ones that *)
(* still returns a group                                              *)
C14_Witness ==
    /\ ExactReturned /\ ~cancel
    /\ \E k \in Futs : ~Readable(paths[k])
    /\ out # <<>>

(* C15: when 'phash' is requested and HAS_DCT is False,                  *)
(* compute_perceptual_groups dispatches no work item and does not return *)
(* a value.                                                              *)
C15_PhashUnavailableReported ==
    (mode = "near" /\ method = "phash" /\ ~hasDct) =>
        /\ \A k \in Futs : fut[k].st = "pending"
        /\ pc # "returned"

(* the progress events on the sink, in order *)
ProgressEvents == SelectSeq(q, LAMBDA m : m.type = "manage_progress")

(* the events put by the collecting loop: compute_perceptual_groups puts *)
(* one event with done 0 before it starts the pool                       *)
CollectEvents ==
    IF mode = "near" /\ ProgressEvents # <<>> THEN Tail(ProgressEvents) ELSE ProgressEvents

(* the completion counts up to d at which an event is due *)
DueUpTo(d) == {n \in 1..d : n % 50 = 0 \/ n = Total}

PhaseName == IF mode = "exact" THEN "sha1" ELSE method

(* C16: in a run that is not cancelled the events of the collecting loop  *)
(* are, in increasing order of done, exactly one for every multiple of 50 *)
(* reached so far and one for total, each with the submitted total and    *)
(* the phase name; the run returns with done = total.                     *)
C16_ProgressExactlyWhenDue ==
    (mode \in {"exact", "near"} /\ ~cancel) =>
        /\ Len(CollectEvents) = Cardinality(DueUpTo(done))
        /\ \A n \in 1..Len(CollectEvents) :
              /\ CollectEvents[n].done \in DueUpTo(done)
              /\ CollectEvents[n].total = Len(paths)
              /\ CollectEvents[n].phase = PhaseName
              /\ n > 1 => CollectEvents[n - 1].done < CollectEvents[n].done
        /\ pc = "returned" => done = Len(paths)

(* a finished run over more than two periods: events at 50, 100 and total *)
C16_Witness ==
    /\ mode = "exact" /\ pc = "returned" /\ ~cancel
    /\ Len(paths) > 2 * ProgressEvery
    /\ Len(CollectEvents) = 3

(* C17: the done values of successive progress events never decrease, and *)
(* in a returned run of one or more items where cancellation was never    *)
(* set the message before the terminal one is a progress event with       *)
(* done = total.                                                          *)
C17_ProgressMonotone ==
    /\ \A n \in 2..Len(ProgressEvents) :
          ProgressEvents[n - 1].done <= ProgressEvents[n].done
    /\ (pc = "returned" /\ ~cancel /\ Len(paths) > 0) =>
          /\ Len(q) >= 2
          /\ q[Len(q)].type = "manage_done"
          /\ q[Len(q) - 1].type = "manage_progress"
          /\ q[Len(q) - 1].done = Len(paths)

(* a finished near run whose total is one past a period: events at 0, 50 *)
(* and 51                                                                *)
C17_Witness ==
    /\ mode = "near" /\ pc = "returned" /\ ~cancel
    /\ Len(paths) = ProgressEvery + 1
    /\ Len(ProgressEvents) = 3

(* C18: once the token of a run in progress is set, it stays set. *)
C18_TokenStaysSet == [][cancel => cancel']_vars

(* C19: while compute_perceptual_groups is in its grouping phase every   *)
(* work item of the run has finished, none is pending or running, and no *)
(* step of the phase changes the entry list.                             *)
C19_GroupingAfterSettled ==
    /\ []((mode = "near" /\ pc = "group") =>
            \A k \in Futs : fut[k].st \in {"finished", "yielded"})
    /\ [][(mode = "near" /\ pc = "group") => entries' = entries]_vars

(* a run with two workers scanning for the anchor of a cluster of two *)
C19_Witness ==
    /\ mode = "near" /\ pc = "group" /\ threads = 2
    /\ grp.at = "scan" /\ Len(grp.cur) >= 2

(* how many times file f was submitted *)
Submissions(f) == Cardinality({k \in Futs : paths[k] = f})

(* C20: no run has an exception in flight, and in a run that is not       *)
(* cancelled a readable path submitted twice or more is returned as often *)
(* as it was submitted: in exact mode all in the group of its digest, in  *)
(* near mode one entry for each submission and all in one cluster.        *)
C20_RepeatedPathKept ==
    /\ pc \notin {"unwind", "raised"}
    /\ \A f \in Files :
         (Readable(f) /\ Submissions(f) >= 2 /\ pc = "returned" /\ ~cancel) =>
            /\ mode = "exact" =>
                 /\ Hexdigest(Content(f)) \in DOMAIN out
                 /\ Count(out[Hexdigest(Content(f))], Resolve(f)) = Submissions(f)
            /\ mode = "near" =>
                 /\ Cardinality({n \in 1..Len(entries) : entries[n][1] = Resolve(f)})
                       = Submissions(f)
                 /\ \E g \in 1..Len(out) : Count(out[g], Resolve(f)) = Submissions(f)

(* the same readable path submitted twice and nothing else: it forms a *)
(* group with itself                                                   *)
C20_Witness ==
    /\ mode = "exact" /\ pc = "returned" /\ ~cancel
    /\ Len(paths) = 2 /\ paths[1] = paths[2] /\ Readable(paths[1])
    /\ DOMAIN out # {}

(* no two submitted items that can be hashed have equal bytes *)
NoEqualPair ==
    \A j, k \in Futs :
        (j # k /\ Readable(paths[j]) /\ Readable(paths[k])) => ~SameBytes(j, k)

(* no two submitted items that can be hashed are within the threshold *)
NoNearPair ==
    \A j, k \in Futs :
        (j # k /\ Readable(paths[j]) /\ Readable(paths[k])) =>
            Hamming(ImageHash(paths[j], method), ImageHash(paths[k], method)) > threshold

(* C21: no run has an exception in flight; a returned run over items with *)
(* no two equal (exact) or within the threshold (near), among them the    *)
(* empty input and the input whose items all failed, returns the empty    *)
(* mapping or list; and a run that returns it has put as its last message *)
(* the terminal signal with found = 0.                                    *)
C21_NoDuplicatesIsEmpty ==
    /\ pc \notin {"unwind", "raised"}
    /\ (mode = "exact" /\ pc = "returned" /\ NoEqualPair) => DOMAIN out = {}
    /\ (mode = "near" /\ pc = "returned" /\ NoNearPair) => DOMAIN out = {}
    /\ (mode \in {"exact", "near"} /\ pc = "returned" /\ DOMAIN out = {}) =>
          /\ q # <<>>
          /\ q[Len(q)] = [type |-> "manage_done", found |-> 0]

(* a near run whose two or more items all failed *)
C21_Witness ==
    /\ mode = "near" /\ pc = "returned" /\ ~cancel
    /\ Len(paths) >= 2
    /\ \A k \in Futs : ~Readable(paths[k])
    /\ DOMAIN out = {}
    /\ q[Len(q)].found = 0

(* the fingerprint of the entry of file f *)
PrintOf(f) == (CHOOSE e \in Range(entries) : e[1] = Resolve(f))[2]

(* the entries are those of a, b, c, d, once each, as the scenario has them *)
IsScenario ==
    /\ Len(entries) = 4
    /\ {entries[n][1] : n \in 1..4} = {Resolve(f) : f \in {"a", "b", "c", "d"}}
    /\ PrintOf("a") = PrintOf("b")
    /\ Hamming(PrintOf("a"), PrintOf("c")) <= 5
    /\ \A f \in {"a", "b", "c"} : Hamming(PrintOf(f), PrintOf("d")) > 5

(* C22: for the four entries of the scenario in any order and threshold 5, *)
(* the function returns one cluster, whose members are a, b and c once     *)
(* each; d is in no cluster.                                               *)
C22_ScenarioOneCluster ==
    (mode = "near" /\ pc = "returned" /\ ~cancel /\ threshold = 5 /\ IsScenario) =>
        /\ Len(out) = 1
        /\ Len(out[1]) = 3
        /\ Range(out[1]) = {Resolve(f) : f \in {"a", "b", "c"}}

(* the scenario with d first and c, exactly 5 from a and b, before them *)
C22_Witness ==
    /\ mode = "near" /\ pc = "returned" /\ ~cancel /\ threshold = 5 /\ IsScenario
    /\ entries[1][1] = Resolve("d") /\ entries[2][1] = Resolve("c")
    /\ Hamming(PrintOf("a"), PrintOf("c")) = 5
    /\ Len(out) = 1

(* bit n of v, counted from the most significant of len bits, n from 1 *)
BitFromTop(v, n, len) == (v \div 2^(len - n)) % 2

(* C23: dhash of an array S high and S + 1 wide is below 2^(S*S), and its *)
(* bit for row r and the pair of columns (c, c + 1), row-major from the   *)
(* most significant, is 1 exactly when the left element is greater than   *)
(* the right one.                                                         *)
C23_DhashLeftGreater ==
    (mode = "dhash" /\ val # NoValue) =>
        /\ val \in 0..(2^(Rows(arr) * Rows(arr)) - 1)
        /\ \A r \in 1..Rows(arr) : \A c \in 1..Rows(arr) :
              (BitFromTop(val, (r - 1) * Rows(arr) + c, Rows(arr) * Rows(arr)) = 1)
                 <=> (arr[r][c] > arr[r][c + 1])

(* C24: ahash of an S x S array is below 2^(S*S), and its bit for the     *)
(* element in row r and column c, row-major from the most significant, is *)
(* 1 exactly when the element is greater than the mean of the array; the  *)
(* hash of a uniform array is 0.                                          *)
C24_AhashAboveMean ==
    (mode = "ahash" /\ val # NoValue) =>
        LET s == Rows(arr)
            total == SumSeq([n \in 1..(s * s) |-> arr[((n - 1) \div s) + 1][((n - 1) % s) + 1]])
        IN /\ val \in 0..(2^(s * s) - 1)
           /\ \A r \in 1..s : \A c \in 1..s :
                 (BitFromTop(val, (r - 1) * s + c, s * s) = 1)
                    <=> (arr[r][c] * s * s > total)
           /\ (\A r \in 1..s : \A c \in 1..s : arr[r][c] = arr[1][1]) => val = 0

(* the hash of a uniform array that is not black *)
C24_Witness ==
    /\ mode = "ahash" /\ val = 0
    /\ \A r \in 1..Rows(arr) : \A c \in 1..Cols(arr) : arr[r][c] = 255

(* the Hamming distance of the fingerprints of entries m and n *)
EntryDistance(m, n) == Hamming(entries[m][2], entries[n][2])

(* the clusters, as lists of entry indexes, that hold entry n *)
ClustersOf(n) == {g \in 1..Len(grp.groups) : n \in Range(grp.groups[g])}

(* C25: when the first three entries x, y, z have x within the threshold *)
(* of y, y within it of z, and x farther than it from z, a run that is   *)
(* not cancelled returns a first cluster that begins with x, y and does  *)
(* not hold z; z is in no cluster at all unless a later entry is within  *)
(* the threshold of z, so with three entries the result is [[x, y]].     *)
C25_AnchorOnly ==
    (/\ mode = "near" /\ pc = "returned" /\ ~cancel
     /\ Len(entries) >= 3
     /\ EntryDistance(1, 2) <= threshold
     /\ EntryDistance(2, 3) <= threshold
     /\ EntryDistance(1, 3) > threshold) =>
        /\ Len(out) >= 1
        /\ Len(out[1]) >= 2
        /\ out[1][1] = entries[1][1]
        /\ out[1][2] = entries[2][1]
        /\ ClustersOf(3) \cap {1} = {}
        /\ (\A k \in 4..Len(entries) : EntryDistance(3, k) > threshold)
              => ClustersOf(3) = {}
        /\ Len(entries) = 3 => out = <<<<entries[1][1], entries[2][1]>>>>

(* three entries at distances 2, 1 and 3 with threshold 2 *)
C25_Witness ==
    /\ mode = "near" /\ pc = "returned" /\ ~cancel
    /\ Len(entries) = 3 /\ threshold = 2
    /\ EntryDistance(1, 2) = 2 /\ EntryDistance(2, 3) = 1 /\ EntryDistance(1, 3) = 3
    /\ Len(out) = 1

(* C26: in a step taken with the token set, a pending work item either   *)
(* stays pending or ends at once with None and never runs; a running one *)
(* stays in the pool until it has finished, and in near mode it finishes *)
(* with the result it would have had without cancellation.               *)
C26_NoStartAfterCancel ==
    [][cancel =>
         \A k \in Futs :
            /\ fut[k].st = "pending" =>
                 \/ fut'[k].st = "pending"
                 \/ fut'[k].st = "finished" /\ fut'[k].res = <<>>
            /\ fut[k].st = "running" =>
                 /\ fut'[k].st \in {"running", "finished"}
                 /\ (mode = "near" /\ fut'[k].st = "finished") =>
                       fut'[k].res = (IF Readable(paths[k])
                                      THEN <<Resolve(paths[k]), ImageHash(paths[k], method)>>
                                      ELSE <<>>)]_vars

(* with the token set, a readable image ended with None while another *)
(* work item is still running                                         *)
C26_Witness ==
    /\ mode = "near" /\ cancel
    /\ \E j, k \in Futs :
          /\ fut[j].st = "running"
          /\ Readable(paths[k]) /\ fut[k].st = "finished" /\ fut[k].res = <<>>

(* C27: in a call of sha1_of_file, at most one chunk read begins with the *)
(* token set; the call returns the empty result only with the token set,  *)
(* and anything else it returns is the digest of the complete file; and   *)
(* from the head of an iteration with the token set its next step is the  *)
(* return of the empty result, whatever is left of the file.              *)
C27_OneMoreChunkAtMost ==
    /\ [](mode = "sha1_of_file" =>
            /\ late <= 1
            /\ fut[1].st = "finished" =>
                 \/ fut[1].res = <<>> /\ cancel
                 \/ fut[1].res = <<0>> \o data)
    /\ [][(mode = "sha1_of_file" /\ cancel /\ fut[1].st = "check") =>
             \/ fut' = fut
             \/ fut'[1].st = "finished" /\ fut'[1].res = <<>> /\ late' = late]_vars

(* the token was set during the read of the first of MaxChunks chunks: *)
(* that read is the only late one and the call returned ""             *)
C27_Witness ==
    /\ mode = "sha1_of_file" /\ cancel
    /\ Len(data) = MaxChunks
    /\ late = 1
    /\ fut[1].st = "finished" /\ fut[1].res = <<>> /\ Len(fut[1].h) = 1

(* C28: never more than max(1, threads) work items are running at once, *)
(* and every run, those with a worker count of 0 or below among them,   *)
(* returns.                                                             *)
C28_BoundedPool ==
    /\ [](mode \in {"exact", "near"} =>
            Cardinality({k \in Futs : fut[k].st = "running"})
               <= (IF threads >= 1 THEN threads ELSE 1))
    /\ <>(pc = "returned")

(* a run asked for -1 workers that has returned after hashing three files *)
C28_Witness ==
    /\ mode = "exact" /\ threads = -1 /\ pc = "returned" /\ ~cancel
    /\ Len(paths) = 3
    /\ \A k \in Futs : fut[k].st = "yielded" /\ fut[k].res # <<>>

(* C29: with the token set, a step of the inner scan that has entries left *)
(* goes on to the next entry of the same anchor, and the step that ends    *)
(* the scan emits its cluster when it has two or more members; the next    *)
(* step at the head of the outer loop starts no anchor: the function       *)
(* returns the clusters emitted so far.                                    *)
C29_TokenReadPerAnchor ==
    [][(mode = "near" /\ pc = "group" /\ cancel /\ grp' # grp) =>
         /\ (grp.at = "scan" /\ grp.j <= Len(entries)) =>
               /\ grp'.at = "scan" /\ grp'.i = grp.i /\ grp'.j = grp.j + 1
               /\ grp'.groups = grp.groups
         /\ (grp.at = "scan" /\ grp.j > Len(entries)) =>
               /\ grp'.at = "anchor"
               /\ Len(grp.cur) >= 2 => grp'.groups = Append(grp.groups, grp.cur)
               /\ Len(grp.cur) < 2 => grp'.groups = grp.groups
         /\ grp.at = "anchor" =>
               /\ grp'.at = "end" /\ grp'.groups = grp.groups
               /\ pc' = "returned"
               /\ Len(out') = Len(grp.groups)]_vars

(* the token is set while an anchor that has taken a member still has an *)
(* entry to compare                                                      *)
C29_Witness ==
    /\ mode = "near" /\ pc = "group" /\ cancel
    /\ grp.at = "scan" /\ Len(grp.cur) >= 2 /\ grp.j <= Len(entries)

(* the futures the collecting loop has taken *)
Yielded == {k \in Futs : fut[k].st = "yielded"}

(* C30: done is the number of futures collected, whatever their results, *)
(* and once the collecting loop has ended with every future collected,   *)
(* done is the number of submitted items.                                *)
C30_FailuresCount ==
    mode \in {"exact", "near"} =>
        /\ done = Cardinality(Yielded)
        /\ (pc \in {"shutdown", "group", "returned"} /\ Yielded = Futs) =>
              done = Len(paths)

(* a returned run of three items, one of which failed, with done = 3 *)
C30_Witness ==
    /\ mode \in {"exact", "near"} /\ pc = "returned"
    /\ Len(paths) = 3 /\ done = 3
    /\ Cardinality({k \in Futs : fut[k].res = <<>>}) = 1

(* s is an initial part of t *)
IsPrefix(s, t) == Len(s) <= Len(t) /\ SubSeq(t, 1, Len(s)) = s

(* C31: in compute_sha1_map the step that collects a work item with a     *)
(* digest puts its path at the end of the list of that digest, every step *)
(* leaves what the lists already hold where it is, and the returned       *)
(* groups are those lists unchanged.                                      *)
C31_CollectionOrder ==
    /\ [][mode = "exact" =>
            /\ \A h \in DOMAIN groups :
                  h \in DOMAIN groups' /\ IsPrefix(groups[h], groups'[h])
            /\ \A k \in Futs :
                  (/\ fut[k].st = "finished" /\ fut'[k].st = "yielded"
                   /\ fut[k].res # <<>> /\ fut[k].res[1] # <<>>) =>
                     LET h == fut[k].res[1]
                     IN /\ h \in DOMAIN groups'
                        /\ groups'[h] = (IF h \in DOMAIN groups THEN groups[h] ELSE <<>>)
                                           \o <<fut[k].res[2]>>]_vars
    /\ [](ExactReturned => \A h \in DOMAIN out : out[h] = groups[h])

(* a and b submitted in that order and returned as b, a *)
C31_Witness ==
    /\ ExactReturned /\ paths = <<"a", "b">>
    /\ \E h \in DOMAIN out : out[h] = <<Resolve("b"), Resolve("a")>>

(* the positions of the terminal messages on the sink *)
DonePositions == {n \in 1..Len(q) : q[n].type = "manage_done"}

(* the places (group, position) of the returned value *)
ReturnedPlaces == UNION {{<<g, n>> : n \in 1..Len(out[g])} : g \in DOMAIN out}

(* C32: before the function returns there is no 'manage_done' on the sink; *)
(* once it has returned there is exactly one, it is the last message, and  *)
(* its found is the number of paths in the returned groups.                *)
C32_OneTerminalSignal ==
    mode \in {"exact", "near"} =>
        /\ pc # "returned" => DonePositions = {}
        /\ pc = "returned" =>
              /\ DonePositions = {Len(q)}
              /\ q[Len(q)].found = Cardinality(ReturnedPlaces)

(* an exact run that returned one group of three after a progress event *)
C32_Witness ==
    /\ mode = "exact" /\ pc = "returned"
    /\ Len(q) = 2 /\ q[1].type = "manage_progress"
    /\ q[2].found = 3

(* C33: in a run of compute_perceptual_groups that is not cancelled, two *)
(* entries with equal fingerprints are members of one returned cluster,  *)
(* whatever the threshold and the order of the entries.                  *)
C33_EqualPrintsTogether ==
    (NearReturned /\ ~cancel) =>
        \A i \in 1..Len(entries), j \in 1..Len(entries) :
            (i # j /\ Fp(i) = Fp(j)) =>
                /\ \E n \in 1..Len(grp.groups) : {i, j} \subseteq Range(grp.groups[n])
                /\ Together(out, entries[i][1], entries[j][1])

(* two entries with one fingerprint, an entry with another one between *)
(* them and outside their cluster                                      *)
C33_Witness ==
    /\ NearReturned /\ ~cancel
    /\ Len(entries) = 3 /\ Fp(1) = Fp(3) /\ Fp(1) # Fp(2)
    /\ Len(out) = 1 /\ Len(out[1]) = 2

(* the resolved paths of the submitted files that can be hashed and have *)
(* fingerprint v                                                         *)
PrintClass(v) ==
    {Resolve(paths[k]) : k \in {j \in Futs : Readable(paths[j]) /\ ImageHash(paths[j], method) = v}}

(* the work items that can be hashed and have fingerprint v *)
PrintItems(v) == {k \in Futs : Readable(paths[k]) /\ ImageHash(paths[k], method) = v}

(* C34: with threshold 0 a run that is not cancelled returns one cluster *)
(* for every fingerprint that two or more hashed items have, holding     *)
(* each of those items once, and no other cluster: member sets that are  *)
(* a function of the submitted files alone.                              *)
C34_ThresholdZeroClasses ==
    (NearReturned /\ ~cancel /\ threshold = 0) =>
        /\ ClusterSets(out) =
              {PrintClass(v) : v \in {w \in Fingerprints : Cardinality(PrintItems(w)) >= 2}}
        /\ Len(out) = Cardinality(ClusterSets(out))
        /\ \A n \in 1..Len(out) :
              \E v \in Fingerprints : Len(out[n]) = Cardinality(PrintItems(v))
                                        /\ Range(out[n]) = PrintClass(v)

(* threshold 0 over a, c, b: the cluster of a and b, and c, one bit pair *)
(* away from nothing, left out                                           *)
C34_Witness ==
    /\ NearReturned /\ ~cancel /\ threshold = 0
    /\ Len(entries) = 3 /\ Fp(1) = Fp(3) /\ Fp(1) # Fp(2)
    /\ entries[1][1] # entries[3][1]
    /\ Len(out) = 1

(* C35: a run of compute_perceptual_groups whose collecting loop was left *)
(* by the break on the token returns the empty list and ends with found   *)
(* 0, whatever entries it had collected.                                  *)
C35_CancelledHashPhaseEmpty ==
    (mode = "near" /\ BrokeOut) =>
        /\ cancel
        /\ out = <<>>
        /\ q[Len(q)] = [type |-> "manage_done", found |-> 0]

(* the break came with two entries of equal fingerprints already collected *)
C35_Witness ==
    /\ mode = "near" /\ BrokeOut
    /\ Len(entries) = 2 /\ Fp(1) = Fp(2)
    /\ out = <<>>

(* the submitted items whose file can be read and has the bytes c *)
ItemsWithBytes(c) == {k \in Futs : Readable(paths[k]) /\ Content(paths[k]) = c}

(* C36: every group a cancelled run of compute_sha1_map returns is a part *)
(* of the group of the run without cancellation: its digest is that of    *)
(* the bytes of two or more submitted files, every member is the path of  *)
(* a submitted file of those very bytes, and no path is there more often  *)
(* than it was submitted.                                                 *)
C36_CancelledGroupsAreParts ==
    (ExactReturned /\ cancel) =>
        \A h \in DOMAIN out :
            \E c \in {Content(f) : f \in Files} :
                /\ h = <<0>> \o c
                /\ Cardinality(ItemsWithBytes(c)) >= 2
                /\ \A n \in 1..Len(out[h]) :
                      /\ \E k \in ItemsWithBytes(c) : Resolve(paths[k]) = out[h][n]
                      /\ Count(out[h], out[h][n])
                            <= Cardinality({k \in ItemsWithBytes(c) :
                                              Resolve(paths[k]) = out[h][n]})

(* a cancelled run that returns two of the three files of one content *)
C36_Witness ==
    /\ ExactReturned /\ cancel
    /\ \E h \in DOMAIN out :
          Len(out[h]) = 2 /\ Cardinality(ItemsWithBytes(SubSeq(h, 2, Len(h)))) = 3

(* C37: provided every hash function returns, every run, cancelled or   *)
(* not, in exact and in near mode, puts the manage_done signal on the   *)
(* sink and returns, the signal is the last message of the sink, and at *)
(* the return no submitted work item is pending or running.             *)
C37_TerminatesDrained ==
    /\ <>(/\ pc = "returned"
          /\ Len(q) > 0
          /\ q[Len(q)].type = "manage_done")
    /\ [](pc = "returned" =>
            /\ \A k \in Futs : fut[k].st \in {"finished", "yielded"}
            /\ Len(q) > 0 /\ q[Len(q)].type = "manage_done")

(* a cancelled run of three items has returned with a work item that *)
(* ran to its end and was never collected                            *)
C37_Witness ==
    /\ pc = "returned" /\ cancel
    /\ Len(paths) = MaxPaths
    /\ \E k \in Futs : fut[k].st = "finished" /\ fut[k].res # None
    /\ q[Len(q)].type = "manage_done"

(* C38: every progress event of a run, cancelled or not, has              *)
(* 0 <= done <= total with total the number of submitted paths, the done  *)
(* values of the events of the collecting loop strictly increase, and a   *)
(* step that puts a message on the sink is a step of the collecting       *)
(* thread: no work item starts, reads or finishes in it.                  *)
C38_ProgressWithinTotal ==
    /\ [](/\ \A n \in 1..Len(ProgressEvents) :
                /\ 0 <= ProgressEvents[n].done
                /\ ProgressEvents[n].done <= ProgressEvents[n].total
                /\ ProgressEvents[n].total = Len(paths)
          /\ \A n \in 2..Len(CollectEvents) :
                CollectEvents[n - 1].done < CollectEvents[n].done)
    /\ [][q' # q =>
            \A k \in Futs :
                \/ fut'[k] = fut[k]
                \/ fut[k].st = "finished" /\ fut'[k].st = "yielded"]_vars

(* a near run over more than two periods, cancelled after the events at *)
(* 0, 50 and 100 and before the last item was collected                 *)
C38_Witness ==
    /\ mode = "near" /\ pc = "returned" /\ cancel
    /\ Len(paths) = 2 * ProgressEvery + 1
    /\ done < Len(paths)
    /\ Len(ProgressEvents) = 3
    /\ ProgressEvents[3].done = 2 * ProgressEvery

(* the submitted paths resolve to pairwise distinct paths *)
DistinctPaths ==
    \A i \in Futs : \A j \in Futs : i # j => Resolve(paths[i]) # Resolve(paths[j])

(* C39: when the submitted paths resolve to pairwise distinct paths, a   *)
(* returned run, exact or near, cancelled or not, has no path twice in a *)
(* group and no path in two groups.                                      *)
C39_GroupsDisjoint ==
    (pc = "returned" /\ mode \in {"exact", "near"} /\ DistinctPaths) =>
        \A h \in DOMAIN out :
            /\ \A m \in 1..Len(out[h]) : \A n \in 1..Len(out[h]) :
                  m # n => out[h][m] # out[h][n]
            /\ \A g \in DOMAIN out :
                  g # h => \A m \in 1..Len(out[h]) : \A n \in 1..Len(out[g]) :
                              out[h][m] # out[g][n]

(* a near run over three distinct paths: the first entry took the third, *)
(* and the second, an anchor of its own within the threshold of the      *)
(* third, was left alone                                                 *)
C39_Witness ==
    /\ NearReturned /\ DistinctPaths
    /\ Len(entries) = 3
    /\ DOMAIN out = {1}
    /\ out[1] = <<entries[1][1], entries[3][1]>>
    /\ BitCount(Xor(Fp(2), Fp(3))) <= threshold

(* the three algorithm names *)
KnownMethods == {"ahash", "dhash", "phash"}

(* C40: in a near-duplicate run whose method name is none of ahash,     *)
(* dhash and phash no work item is hashed: no future holds a            *)
(* fingerprint and the entry list stays empty.                          *)
C40_UnknownMethodNotHashed ==
    (mode = "near" /\ method \notin KnownMethods) =>
        /\ entries = <<>>
        /\ \A k \in Futs : fut[k].res = None

====
